---- MODULE Spec2Model ----
(***************************************************************************)
(* A model of powerful-form-hook (src/src/index.ts, second useForm, and    *)
(* the validator library of src/unnamed/part_000).                         *)
(*                                                                         *)
(* One form instance.  Every event handler, and every continuation that    *)
(* runs after an await, is one atomic action: JavaScript runs each of them *)
(* to completion.  An event handler reads the state of the latest render;  *)
(* a continuation reads the state its closure captured when it started and *)
(* writes through functional updaters, which see the current state.        *)
(***************************************************************************)
EXTENDS Integers, Sequences, FiniteSets, TLC

VARIABLES
    VERSION,          \* let VERSION (module level counter)
    values,           \* useState(fixedInitialValues)
    errors,           \* useState<ErrorsState>
    globalErrors,     \* useState<ErrorState>
    validatingState,  \* useState<number[]>: versions of the passes in flight
    submitting,       \* useState(false)
    unmountRef,       \* useRef(false), set by the effect's cleanup
    processors,       \* the name of the argument of createValidator (SpecCV)
    passes,           \* the validate calls that have not settled yet
    submits,          \* the handleSubmit calls that have not settled yet
    settled,          \* how the last settled handleSubmit call ended
    written,          \* per field: the newest write addressed to it so far
    event,            \* the last call or continuation that ran
    call              \* the last call of a function of the module made on its own

vars == <<VERSION, values, errors, globalErrors, validatingState, submitting,
          unmountRef, processors, passes, submits, settled, written, event, call>>

---------------------------------------------------------------------------
(* Bounds of the model *)

\* VERSION never grows past this with a caller supplied validate function
\* (Spec): the form takes the first three versions, MaxVersion - 3 more are
\* allocated by passes and direct error sets
MaxVersion == 5
\* the same with a validate function built by createValidator (SpecCV)
MaxVersionCV == 6

---------------------------------------------------------------------------
(* The universe *)

\* Object.keys(fixedInitialValues), in key order
FieldOrder == <<"a", "b">>
Fields == {FieldOrder[i] : i \in 1..Len(FieldOrder)}
\* the field values of Spec, and those of SpecCV
Values == {"", "x"}
ValuesCV == {"", "x", "y"}
\* messages a caller supplied validate function fails with
Messages == {"m1"}
\* messages of the validators of the library
LibMessages == {"Required", "Should same with a", "Should same with b"}
Strings == Messages \cup LibMessages

Undefined == "undefined"
\* ErrorType: Error_Keep, Error_Reset, Error_False or a message string
Error_Keep == "Keep"
Error_Reset == "Reset"
Error_False == "False"
ErrorTypes == {Error_Keep, Error_Reset, Error_False} \cup Messages

\* what the caller's onSubmit fails with
SubmitErrors == {"e1", "e2"}

NoField == "none"
NoMessage == "none"
\* null for `globalError` of execValidate
Null == "null"

---------------------------------------------------------------------------
(* mergeError, hasError, createKeepErrors *)

createKeepErrors(errorsState) == [key \in DOMAIN errorsState |-> Error_Keep]

\* mergeError without its version guard
mergeError_NoGuard(states, errs, version) ==
    [key \in DOMAIN states |->
        CASE errs[key] = Error_Reset ->
                [error |-> Undefined, message |-> Undefined, version |-> version]
          [] errs[key] = Error_False ->
                [error |-> "false", message |-> Undefined, version |-> version]
          [] errs[key] \in Strings ->
                [error |-> "true", message |-> errs[key], version |-> version]
          [] OTHER -> states[key]]

\* mergeError with the version guard on Reset and False only
mergeError_MessagesAlways(states, errs, version) ==
    [key \in DOMAIN states |->
        CASE errs[key] \in Strings ->
                [error |-> "true", message |-> errs[key], version |-> version]
          [] errs[key] = Error_Reset /\ version >= states[key].version ->
                [error |-> Undefined, message |-> Undefined, version |-> version]
          [] errs[key] = Error_False /\ version >= states[key].version ->
                [error |-> "false", message |-> Undefined, version |-> version]
          [] OTHER -> states[key]]

\* mergeError storing Error_False as it stores Error_Reset
mergeError_FalseAsReset(states, errs, version) ==
    [key \in DOMAIN states |->
        IF version >= states[key].version
        THEN CASE errs[key] \in {Error_Reset, Error_False} ->
                    [error |-> Undefined, message |-> Undefined, version |-> version]
               [] errs[key] \in Strings ->
                    [error |-> "true", message |-> errs[key], version |-> version]
               [] OTHER -> states[key]
        ELSE states[key]]

\* mergeError stamping a field with the successor of its stored version
mergeError_NextVersion(states, errs, version) ==
    [key \in DOMAIN states |->
        IF version >= states[key].version
        THEN CASE errs[key] = Error_Reset ->
                    [error |-> Undefined, message |-> Undefined,
                     version |-> states[key].version + 1]
               [] errs[key] = Error_False ->
                    [error |-> "false", message |-> Undefined,
                     version |-> states[key].version + 1]
               [] errs[key] \in Strings ->
                    [error |-> "true", message |-> errs[key],
                     version |-> states[key].version + 1]
               [] OTHER -> states[key]
        ELSE states[key]]

mergeError(states, errs, version) ==
    [key \in DOMAIN states |->
        IF version >= states[key].version
        THEN CASE errs[key] = Error_Reset ->
                    [error |-> Undefined, message |-> Undefined, version |-> version]
               [] errs[key] = Error_False ->
                    [error |-> "false", message |-> Undefined, version |-> version]
               [] errs[key] \in Strings ->
                    [error |-> "true", message |-> errs[key], version |-> version]
               [] OTHER -> states[key]
        ELSE states[key]]

\* hasError that looks at the global error of the pass only
hasError_GlobalOnly(errs, errorsPatch, globalError, version) == globalError # Null

\* errorsPatch is [has |-> FALSE] for null
hasError(errs, errorsPatch, globalError, version) ==
    LET newErrors == IF errorsPatch.has
                     THEN mergeError(errs, errorsPatch.patch, version)
                     ELSE [key \in {} |-> 0]
    IN  \/ \E key \in DOMAIN newErrors : newErrors[key].error = "true"
        \/ globalError # Null

---------------------------------------------------------------------------
(* The outcome of one call of the validate function of the form *)

KeepAll == [f \in Fields |-> Error_Keep]

\* validate returned a patch
PatchOutcomes ==
    {[kind |-> "patch", patch |-> p, field |-> NoField, message |-> NoMessage] :
        p \in [Fields -> ErrorTypes]}
\* validate threw new FieldValidateError(field, message)
FieldErrorOutcomes ==
    {[kind |-> "fieldError", patch |-> KeepAll, field |-> f, message |-> m] :
        f \in Fields, m \in Messages}
\* validate threw a string or an Error
ErrorOutcomes ==
    {[kind |-> "error", patch |-> KeepAll, field |-> NoField, message |-> m] :
        m \in Messages}
Outcomes == PatchOutcomes \cup FieldErrorOutcomes \cup ErrorOutcomes

\* the validate call is in flight and the caller's function decides later
Pending == [kind |-> "pending", patch |-> KeepAll, field |-> NoField, message |-> NoMessage]
NoOutcome == [kind |-> "none", patch |-> KeepAll, field |-> NoField, message |-> NoMessage]

NullPatch == [has |-> FALSE, patch |-> KeepAll]
SomePatch(p) == [has |-> TRUE, patch |-> p]

---------------------------------------------------------------------------
(* Trigger specs and checkTriggers *)

FullMatch == "FullMatch"
OptionMatch == "OptionMatch"
NotMatch == "NotMatch"

\* TriggerSimpleOption, TriggerObjectOption, TriggerOption[]
Simple(t) == [kind |-> "simple", trigger |-> t, fields |-> {}, items |-> <<>>]
Object(t, fs) == [kind |-> "object", trigger |-> t, fields |-> fs, items |-> <<>>]
List(opts) == [kind |-> "list", trigger |-> "none", fields |-> {}, items |-> opts]
\* extraTriggers left out
NoTriggers == [kind |-> "none", trigger |-> "none", fields |-> {}, items |-> <<>>]

DEFAULT_TRIGGER_OPTIONS == List(<<Simple("change"), Simple("blur")>>)

\* trigger + '!'
forced(trigger) ==
    CASE trigger = "change" -> "change!"
      [] trigger = "blur" -> "blur!"
      [] trigger = "submit" -> "submit!"

RECURSIVE checkTriggers(_, _, _, _, _)
RECURSIVE checkTriggersLoop(_, _, _, _, _, _, _)

\* the for loop returning at the first element that matches at all
checkTriggersLoop_FirstMatch(triggers, i, optionMatch, trigger, ownerField, triggerField, extraTriggers) ==
    IF i > Len(triggers.items)
    THEN NotMatch
    ELSE LET match == checkTriggers(triggers.items[i], trigger, ownerField, triggerField,
                                    extraTriggers)
         IN  IF match # NotMatch
             THEN match
             ELSE checkTriggersLoop(triggers, i + 1, optionMatch, trigger, ownerField,
                                    triggerField, extraTriggers)

\* the for loop of the array branch, from element i on
checkTriggersLoop(triggers, i, optionMatch, trigger, ownerField, triggerField, extraTriggers) ==
    IF i > Len(triggers.items)
    THEN IF optionMatch THEN OptionMatch ELSE NotMatch
    ELSE LET match == checkTriggers(triggers.items[i], trigger, ownerField, triggerField,
                                    extraTriggers)
         IN  IF match = FullMatch
             THEN match
             ELSE checkTriggersLoop(triggers, i + 1, optionMatch \/ match = OptionMatch,
                                    trigger, ownerField, triggerField, extraTriggers)

\* checkTriggers without `trigger === 'change' ? ... : OptionMatch` for a simple trigger
checkTriggers_AlwaysFull(triggers, trigger, ownerField, triggerField, extraTriggers) ==
    LET extra == IF extraTriggers.kind # "none"
                 THEN checkTriggers(extraTriggers, trigger, ownerField, triggerField, NoTriggers)
                 ELSE NotMatch
    IN  CASE triggers.kind = "simple" ->
                IF /\ (trigger = triggers.trigger \/ forced(trigger) = triggers.trigger)
                   /\ ownerField = triggerField
                THEN FullMatch
                ELSE extra
          [] triggers.kind = "object" ->
                IF /\ trigger = triggers.trigger
                   /\ (ownerField = triggerField \/ triggerField \in triggers.fields)
                THEN IF trigger = "change" THEN FullMatch ELSE OptionMatch
                ELSE IF /\ forced(trigger) = triggers.trigger
                        /\ (ownerField = triggerField \/ triggerField \in triggers.fields)
                THEN FullMatch
                ELSE extra
          [] OTHER ->
                checkTriggersLoop(triggers, 1, FALSE, trigger, ownerField, triggerField,
                                  extraTriggers)

\* checkTriggers without `fields.indexOf(triggerField) !== -1` for an object trigger
checkTriggers_IgnoreFields(triggers, trigger, ownerField, triggerField, extraTriggers) ==
    LET extra == IF extraTriggers.kind # "none"
                 THEN checkTriggers(extraTriggers, trigger, ownerField, triggerField, NoTriggers)
                 ELSE NotMatch
    IN  CASE triggers.kind \in {"simple", "object"} ->
                IF trigger = triggers.trigger /\ ownerField = triggerField
                THEN IF trigger = "change" THEN FullMatch ELSE OptionMatch
                ELSE IF forced(trigger) = triggers.trigger /\ ownerField = triggerField
                THEN FullMatch
                ELSE extra
          [] OTHER ->
                checkTriggersLoop(triggers, 1, FALSE, trigger, ownerField, triggerField,
                                  extraTriggers)

\* checkTriggers without `ownerField === triggerField` for a simple trigger
checkTriggers_AnyOwner(triggers, trigger, ownerField, triggerField, extraTriggers) ==
    LET extra == IF extraTriggers.kind # "none"
                 THEN checkTriggers(extraTriggers, trigger, ownerField, triggerField, NoTriggers)
                 ELSE NotMatch
    IN  CASE triggers.kind = "simple" ->
                IF trigger = triggers.trigger
                THEN IF trigger = "change" THEN FullMatch ELSE OptionMatch
                ELSE IF forced(trigger) = triggers.trigger
                THEN FullMatch
                ELSE extra
          [] triggers.kind = "object" ->
                IF /\ trigger = triggers.trigger
                   /\ (ownerField = triggerField \/ triggerField \in triggers.fields)
                THEN IF trigger = "change" THEN FullMatch ELSE OptionMatch
                ELSE IF /\ forced(trigger) = triggers.trigger
                        /\ (ownerField = triggerField \/ triggerField \in triggers.fields)
                THEN FullMatch
                ELSE extra
          [] OTHER ->
                checkTriggersLoop(triggers, 1, FALSE, trigger, ownerField, triggerField,
                                  extraTriggers)

checkTriggers(triggers, trigger, ownerField, triggerField, extraTriggers) ==
    LET extra == IF extraTriggers.kind # "none"
                 THEN checkTriggers(extraTriggers, trigger, ownerField, triggerField, NoTriggers)
                 ELSE NotMatch
    IN  CASE triggers.kind = "simple" ->
                IF trigger = triggers.trigger /\ ownerField = triggerField
                THEN IF trigger = "change" THEN FullMatch ELSE OptionMatch
                ELSE IF forced(trigger) = triggers.trigger /\ ownerField = triggerField
                THEN FullMatch
                ELSE extra
          [] triggers.kind = "object" ->
                IF /\ trigger = triggers.trigger
                   /\ (ownerField = triggerField \/ triggerField \in triggers.fields)
                THEN IF trigger = "change" THEN FullMatch ELSE OptionMatch
                ELSE IF /\ forced(trigger) = triggers.trigger
                        /\ (ownerField = triggerField \/ triggerField \in triggers.fields)
                THEN FullMatch
                ELSE extra
          [] OTHER ->
                checkTriggersLoop(triggers, 1, FALSE, trigger, ownerField, triggerField,
                                  extraTriggers)

---------------------------------------------------------------------------
(* The validators of the library that the forms of SpecCV use *)

\* string(): the builder with no check chained; string().required() is
\* required on the string values of this model
string == [name |-> "string", field |-> NoField]
required == [name |-> "required", field |-> NoField]
sameWith(field) == [name |-> "sameWith", field |-> field]
sameWithWhenExists(field) == [name |-> "sameWithWhenExists", field |-> field]

Ok == [threw |-> FALSE, message |-> NoMessage]
Throw(message) == [threw |-> TRUE, message |-> message]

\* `Should same with ${field}`
shouldSameWith(field) == IF field = "a" THEN "Should same with a" ELSE "Should same with b"

\* validator(value, error, values, errors, trigger); !value is value = ""
callValidator(validator, value, vals) ==
    CASE validator.name = "required" ->
            IF value = "" THEN Throw("Required") ELSE Ok
      [] validator.name = "sameWith" ->
            IF (value = "" /\ vals[validator.field] = "") \/ value # vals[validator.field]
            THEN Throw(shouldSameWith(validator.field))
            ELSE Ok
      [] validator.name = "sameWithWhenExists" ->
            IF vals[validator.field] # "" /\ value # vals[validator.field]
            THEN Throw(shouldSameWith(validator.field))
            ELSE Ok
      [] OTHER -> Ok

---------------------------------------------------------------------------
(* createValidator *)

\* FieldValidators: a function, an object with triggers, or an array of them
Function(validator) ==
    [shape |-> "function", triggers |-> NoTriggers, validate |-> validator, items |-> <<>>]
ObjectValidator(triggers, validator) ==
    [shape |-> "object", triggers |-> triggers, validate |-> validator, items |-> <<>>]
Array(ps) ==
    [shape |-> "array", triggers |-> NoTriggers, validate |-> required, items |-> ps]

\* extractTrigger(field, meta, submit); meta is (trigger, field) of the pass
extractTrigger(field, metaTrigger, metaField, submit) ==
    IF metaTrigger = "change" /\ metaField = field THEN "change"
    ELSE IF metaTrigger = "blur" /\ metaField = field THEN "blur"
    ELSE IF submit THEN "submit"
    ELSE "null"

RECURSIVE processFieldValidator(_, _, _, _, _, _, _)
RECURSIVE processFieldValidatorLoop(_, _, _, _, _, _, _, _)

\* the for loop of the array branch, from element i on; a throw ends it
processFieldValidatorLoop(errorsOut, i, vals, errs, processor, processorField, trigger, triggerField) ==
    IF i > Len(processor.items)
    THEN [errorsOut |-> errorsOut, thrown |-> Ok]
    ELSE LET r == processFieldValidator(errorsOut, vals, errs, processor.items[i],
                                        processorField, trigger, triggerField)
         IN  IF r.thrown.threw
             THEN r
             ELSE processFieldValidatorLoop(r.errorsOut, i + 1, vals, errs, processor,
                                            processorField, trigger, triggerField)

\* returns the errorsOut it leaves and what it threw
processFieldValidator(errorsOut, vals, errs, processor, processorField, trigger, triggerField) ==
    IF processor.shape \in {"function", "object"}
    THEN LET triggers == IF processor.shape = "function"
                         THEN DEFAULT_TRIGGER_OPTIONS
                         ELSE processor.triggers
             match == checkTriggers(triggers, trigger, processorField, triggerField,
                                    Simple("submit"))
         IN  IF match = NotMatch
             THEN [errorsOut |-> errorsOut, thrown |-> Ok]
             ELSE IF match = FullMatch \/ errs[processorField].error = Undefined
             THEN LET r == callValidator(processor.validate, vals[processorField], vals)
                  IN  IF r.threw
                      THEN [errorsOut |-> errorsOut, thrown |-> r]
                      ELSE [errorsOut |->
                                IF errorsOut[processorField] # Error_Reset
                                THEN [errorsOut EXCEPT ![processorField] =
                                        IF trigger = "change" THEN Error_Reset
                                        ELSE Error_False]
                                ELSE errorsOut,
                            thrown |-> Ok]
             ELSE [errorsOut |-> errorsOut, thrown |-> Ok]
    ELSE processFieldValidatorLoop(errorsOut, 1, vals, errs, processor, processorField,
                                   trigger, triggerField)

\* Object.keys(processors), in key order
processorFields(procs) == SelectSeq(FieldOrder, LAMBDA f : f \in DOMAIN procs)

\* one task of fields.map(...): processFieldValidator and the catch around it
createValidatorTask(errorsOut, vals, errs, procs, processorField, trigger, field) ==
    LET r == processFieldValidator(errorsOut, vals, errs, procs[processorField],
                                   processorField, trigger, field)
    IN  IF r.thrown.threw
        THEN [r.errorsOut EXCEPT ![processorField] = r.thrown.message]
        ELSE r.errorsOut

RECURSIVE createValidatorTasks(_, _, _, _, _, _, _)
\* the tasks of one field, from the j-th processor field on: the validators of
\* this model return without suspending and write their own field only, so
\* the tasks commute
createValidatorTasks(errorsOut, j, vals, errs, procs, trigger, field) ==
    IF j > Len(processorFields(procs))
    THEN errorsOut
    ELSE createValidatorTasks(
            createValidatorTask(errorsOut, vals, errs, procs, processorFields(procs)[j],
                                trigger, field),
            j + 1, vals, errs, procs, trigger, field)

RECURSIVE createValidatorLoop(_, _, _, _, _, _, _, _)
\* for (const field of fields), from the i-th field on
createValidatorLoop(errorsOut, i, vals, errs, procs, metaTrigger, metaField, submit) ==
    IF i > Len(processorFields(procs))
    THEN errorsOut
    ELSE LET field == processorFields(procs)[i]
             trigger == extractTrigger(field, metaTrigger, metaField, submit)
         IN  createValidatorLoop(
                IF trigger # "null"
                THEN createValidatorTasks(errorsOut, 1, vals, errs, procs, trigger, field)
                ELSE errorsOut,
                i + 1, vals, errs, procs, metaTrigger, metaField, submit)

\* createValidator(processors)(values, errors, meta, submit): the patch returned
createValidator(procs, vals, errs, metaTrigger, metaField, submit) ==
    createValidatorLoop(createKeepErrors(errs), 1, vals, errs, procs, metaTrigger,
                        metaField, submit)

---------------------------------------------------------------------------
(* The arguments of createValidator of the forms of SpecCV *)

\* password and conformedPassword of the Demo story
PasswordForm ==
    [a |-> Array(<<Function(required),
                   ObjectValidator(Object("blur!", {"b"}), sameWithWhenExists("b"))>>),
     b |-> Array(<<Function(string),
                   ObjectValidator(Object("blur!", {"a"}), sameWithWhenExists("a"))>>)]

\* a validator that runs on blur only, as the second one of userName of the story
BlurForm ==
    [a |-> ObjectValidator(Simple("blur"), required),
     b |-> Function(required)]

\* a cross field validator on one side only
SameWithForm ==
    [a |-> Function(required),
     b |-> ObjectValidator(Object("blur!", {"a"}), sameWith("a"))]

\* every field required, with the default triggers
RequiredForm ==
    [a |-> Function(required),
     b |-> Function(required)]

Forms == {"PasswordForm", "BlurForm", "SameWithForm", "RequiredForm"}

\* the FieldValidators a name of Forms stands for
processorsOf(name) ==
    CASE name = "PasswordForm" -> PasswordForm
      [] name = "BlurForm" -> BlurForm
      [] name = "SameWithForm" -> SameWithForm
      [] name = "RequiredForm" -> RequiredForm


---------------------------------------------------------------------------
(* useForm *)

validating == Len(validatingState) > 0

touchedFields_None(pass) == {}

\* Object.keys(meta).filter(key => meta[key].change || meta[key].blur)
touchedFields(pass) == IF pass.trigger \in {"change", "blur"} THEN {pass.field} ELSE {}

removeVersion_Never(prevState, version) == prevState

\* prevState.indexOf(version), splice(index, 1)
removeVersion(prevState, version) ==
    IF \E i \in 1..Len(prevState) : prevState[i] = version
    THEN LET index == CHOOSE i \in 1..Len(prevState) :
                        /\ prevState[i] = version
                        /\ \A j \in 1..(i - 1) : prevState[j] # version
         IN  SubSeq(prevState, 1, index - 1) \o SubSeq(prevState, index + 1, Len(prevState))
    ELSE prevState

\* unmountRef.current, as the continuation of execValidate reads it
execValidateUnmounted_Never == FALSE

execValidateUnmounted == unmountRef

\* execValidate storing the global error whatever its version
execValidateSettle_NoGlobalGuard(pass, out) ==
    LET version == pass.version
        fields == touchedFields(pass)
        same == [errors |-> errors, globalErrors |-> globalErrors,
                 errorsPatch |-> NullPatch, globalError |-> Null]
        errorsOut == [f \in DOMAIN errors |->
                        CASE out.kind = "patch" -> out.patch[f]
                          [] out.kind = "fieldError" ->
                                IF f = out.field THEN out.message ELSE Error_Keep
                          [] OTHER -> IF f \in fields THEN out.message ELSE Error_Keep]
    IN  IF execValidateUnmounted
        THEN IF out.kind = "patch" THEN [same EXCEPT !.errorsPatch = SomePatch(out.patch)]
             ELSE same
        ELSE IF out.kind = "error" /\ fields = {}
        THEN [same EXCEPT !.globalError = out.message,
                          !.globalErrors = [error |-> "true", message |-> out.message,
                                            version |-> version]]
        ELSE [same EXCEPT !.errors = mergeError(errors, errorsOut, version),
                          !.errorsPatch = SomePatch(errorsOut)]

\* The continuation of execValidate after `await validate(...)` settled with
\* `out`: the new error store, the new global error state and the returned
\* [errorsPatch, globalError].
execValidateSettle(pass, out) ==
    LET version == pass.version
        fields == touchedFields(pass)
        same == [errors |-> errors, globalErrors |-> globalErrors,
                 errorsPatch |-> NullPatch, globalError |-> Null]
    IN  CASE out.kind = "patch" ->
                [same EXCEPT
                    !.errors = IF ~execValidateUnmounted
                               THEN mergeError(errors, out.patch, version)
                               ELSE errors,
                    !.errorsPatch = SomePatch(out.patch)]
          [] out.kind = "fieldError" ->
                IF ~execValidateUnmounted
                THEN LET errorsOut == [createKeepErrors(errors) EXCEPT ![out.field] = out.message]
                     IN  [same EXCEPT !.errors = mergeError(errors, errorsOut, version),
                                      !.errorsPatch = SomePatch(errorsOut)]
                ELSE same
          [] OTHER ->
                IF ~execValidateUnmounted
                THEN IF fields # {}
                     THEN LET errorsOut == [f \in DOMAIN errors |->
                                              IF f \in fields THEN out.message ELSE Error_Keep]
                          IN  [same EXCEPT !.errors = mergeError(errors, errorsOut, version),
                                           !.errorsPatch = SomePatch(errorsOut)]
                     ELSE [same EXCEPT
                            !.globalError = out.message,
                            !.globalErrors =
                                IF version >= globalErrors.version
                                THEN [error |-> "true", message |-> out.message,
                                      version |-> version]
                                ELSE globalErrors]
                ELSE same

Event(op, field, version, out) ==
    [op |-> op, field |-> field, version |-> version, out |-> out]

NotSettled == [result |-> "none", error |-> NoMessage]

\* execValidate stamping the pass with VERSION as it is
execValidate_NoIncrement(trigger, field, result) ==
    /\ VERSION' = VERSION
    /\ validatingState' = Append(validatingState, VERSION)
    /\ passes' = passes \cup {[version |-> VERSION, trigger |-> trigger,
                               field |-> field, result |-> result]}

\* const version = ++VERSION; setValidatingState(prevState => [...prevState, version]);
\* validate(values, errors, meta, submit) is called: `result` is Pending while
\* the caller's function has not decided
execValidate(trigger, field, result) ==
    /\ VERSION' = VERSION + 1
    /\ validatingState' = Append(validatingState, VERSION + 1)
    /\ passes' = passes \cup {[version |-> VERSION + 1, trigger |-> trigger,
                               field |-> field, result |-> result]}

\* if (submitting) return;  in handleChange
handleChangeIgnored_Never == FALSE

handleChangeIgnored == submitting

\* if (submitting) return;  in the blur handler
handleBlurIgnored_Never == FALSE

handleBlurIgnored == submitting

\* if (validating || submitting) return;
handleSubmitIgnored_SubmittingOnly == submitting

handleSubmitIgnored_ValidatingOnly == validating

handleSubmitIgnored == validating \/ submitting

\* the cap of VERSION
versionCap(cv) == IF cv THEN MaxVersionCV ELSE MaxVersion

\* validate(values, errors, meta, submit) is called: with cv the function is
\* createValidator(processors), which settles with the patch computed here;
\* otherwise it is any function of the caller
validate(cv, vals, errs, metaTrigger, metaField, submit) ==
    IF cv
    THEN [kind |-> "patch",
          patch |-> createValidator(processorsOf(processors), vals, errs, metaTrigger, metaField, submit),
          field |-> NoField, message |-> NoMessage]
    ELSE Pending

\* a change handler that clears the other fields
handleChanges_ClearsOthers(key, target, cv) ==
    /\ event' = Event("handleChange", key, 0, NoOutcome)
    /\ IF handleChangeIgnored
       THEN UNCHANGED <<VERSION, values, validatingState, passes>>
       ELSE /\ VERSION < versionCap(cv)
            /\ values' = [f \in Fields |-> IF f = key THEN target ELSE ""]
            /\ execValidate("change", key,
                            validate(cv, [values EXCEPT ![key] = target], errors,
                                     "change", key, FALSE))
    /\ UNCHANGED <<errors, globalErrors, submitting, unmountRef, processors,
                   submits, settled, written, call>>

\* handleChanges[key](target)
handleChanges(key, target, cv) ==
    /\ event' = Event("handleChange", key, 0, NoOutcome)
    /\ IF handleChangeIgnored
       THEN UNCHANGED <<VERSION, values, validatingState, passes>>
       ELSE /\ VERSION < versionCap(cv)
            /\ values' = [values EXCEPT ![key] = target]
            /\ execValidate("change", key,
                            validate(cv, [values EXCEPT ![key] = target], errors,
                                     "change", key, FALSE))
    /\ UNCHANGED <<errors, globalErrors, submitting, unmountRef, processors,
                   submits, settled, written, call>>

\* handleBlurs[key](evt)
handleBlurs(key, cv) ==
    /\ event' = Event("handleBlur", key, 0, NoOutcome)
    /\ IF handleBlurIgnored
       THEN UNCHANGED <<VERSION, validatingState, passes>>
       ELSE /\ VERSION < versionCap(cv)
            /\ execValidate("blur", key, validate(cv, values, errors, "blur", key, FALSE))
    /\ UNCHANGED <<values, errors, globalErrors, submitting, unmountRef, processors,
                   submits, settled, written, call>>

\* handleSubmit(evt) up to its first await
handleSubmit(cv) ==
    /\ event' = Event("handleSubmit", NoField, 0, NoOutcome)
    /\ IF handleSubmitIgnored
       THEN UNCHANGED <<VERSION, validatingState, passes, submitting, submits>>
       ELSE /\ VERSION < versionCap(cv)
            /\ submitting' = TRUE
            /\ execValidate("submit", NoField,
                            validate(cv, values, errors, "none", NoField, TRUE))
            /\ submits' = submits \cup {[version |-> VERSION + 1, values |-> values,
                                         errors |-> errors, pc |-> "validate"]}
    /\ UNCHANGED <<values, errors, globalErrors, unmountRef, processors, settled, written,
                   call>>

\* What the pass settling with `out` says about field f: an ErrorType
resultFor(pass, out, f) ==
    CASE out.kind = "patch" -> out.patch[f]
      [] out.kind = "fieldError" -> IF f = out.field THEN out.message ELSE Error_Keep
      [] OTHER -> IF f \in touchedFields(pass) THEN out.message ELSE Error_Keep

\* the outcomes the validate call of a pass can settle with
passOutcomes(pass) == IF pass.result = Pending THEN Outcomes ELSE {pass.result}

handleSubmitCallsOnSubmit_Unguarded(s, r) ==
    ~hasError(s.errors, r.errorsPatch, r.globalError, s.version)

\* The continuation of handleSubmit after `await execValidate(...)`, where r
\* is what the continuation of execValidate computed: TRUE iff onSubmit is called
handleSubmitCallsOnSubmit(s, r) ==
    ~hasError(s.errors, r.errorsPatch, r.globalError, s.version) /\ ~unmountRef

\* `await validate(...)` of pass settles with out; execValidate runs to its
\* end, and so does handleSubmit up to `await onSubmit(values)` when the pass
\* is the one of a submission
execValidateSettles(pass, out) ==
    LET r == execValidateSettle(pass, out)
        mine == {s \in submits : s.version = pass.version /\ s.pc = "validate"}
    IN  /\ event' = Event("settle", pass.field, pass.version, out)
        /\ errors' = r.errors
        /\ globalErrors' = r.globalErrors
        /\ validatingState' = removeVersion(validatingState, pass.version)
        /\ passes' = passes \ {pass}
        /\ written' = [f \in Fields |->
                        IF /\ resultFor(pass, out, f) # Error_Keep
                           /\ pass.version > written[f].version
                        THEN [version |-> pass.version, result |-> resultFor(pass, out, f)]
                        ELSE written[f]]
        /\ IF mine = {}
           THEN UNCHANGED <<submits, submitting, settled>>
           ELSE LET s == CHOOSE s \in mine : TRUE
                IN  IF handleSubmitCallsOnSubmit(s, r)
                    THEN /\ submits' = (submits \ {s}) \cup {[s EXCEPT !.pc = "onSubmit"]}
                         /\ UNCHANGED <<submitting, settled>>
                    ELSE /\ submits' = submits \ {s}
                         /\ submitting' = FALSE
                         /\ settled' = [result |-> "resolved", error |-> NoMessage]
        /\ UNCHANGED <<VERSION, values, unmountRef, processors, call>>

\* handleSubmit with a catch that stores the failure of onSubmit
handleSubmitAfterOnSubmit_Catch(error) ==
    IF error = Null
    THEN [submitting |-> FALSE, errors |-> errors, globalErrors |-> globalErrors,
          settled |-> [result |-> "resolved", error |-> NoMessage]]
    ELSE [submitting |-> FALSE, errors |-> errors,
          globalErrors |-> [error |-> "true", message |-> error,
                            version |-> globalErrors.version],
          settled |-> [result |-> "resolved", error |-> NoMessage]]

\* handleSubmit with setSubmitting(false) after the try block, not in a finally
handleSubmitAfterOnSubmit_NoFinally(error) ==
    [submitting |-> error # Null, errors |-> errors, globalErrors |-> globalErrors,
     settled |-> IF error = Null
                 THEN [result |-> "resolved", error |-> NoMessage]
                 ELSE [result |-> "rejected", error |-> error]]

\* `await onSubmit(values)` returned (error = Null) or threw error: the
\* finally block runs and handleSubmit settles
handleSubmitAfterOnSubmit(error) ==
    [submitting |-> FALSE, errors |-> errors, globalErrors |-> globalErrors,
     settled |-> IF error = Null
                 THEN [result |-> "resolved", error |-> NoMessage]
                 ELSE [result |-> "rejected", error |-> error]]

onSubmitSettles(s, error) ==
    LET r == handleSubmitAfterOnSubmit(error)
    IN  /\ s.pc = "onSubmit"
        /\ event' = Event(IF error = Null THEN "onSubmitReturn" ELSE "onSubmitThrow",
                          NoField, s.version, [NoOutcome EXCEPT !.message = error])
        /\ submits' = submits \ {s}
        /\ submitting' = r.submitting
        /\ errors' = r.errors
        /\ globalErrors' = r.globalErrors
        /\ settled' = r.settled
        /\ UNCHANGED <<VERSION, values, validatingState, unmountRef, processors,
                       passes, written, call>>

setFieldError_PostIncrement(field, error) ==
    /\ VERSION < MaxVersion
    /\ event' = Event("setFieldError", field, VERSION + 1, NoOutcome)
    /\ VERSION' = VERSION + 1
    /\ errors' = [errors EXCEPT ![field] =
                    [error |-> IF error # Null THEN "true" ELSE "false",
                     message |-> IF error # Null THEN error ELSE Undefined,
                     version |-> VERSION]]
    /\ written' = [written EXCEPT ![field] = [version |-> VERSION, result |-> "direct"]]
    /\ UNCHANGED <<values, globalErrors, validatingState, submitting, unmountRef,
                   processors, passes, submits, settled, call>>

\* setFieldError(field, error); error = Null stands for null and undefined
setFieldError(field, error) ==
    /\ VERSION < MaxVersion
    /\ event' = Event("setFieldError", field, VERSION + 1, NoOutcome)
    /\ VERSION' = VERSION + 1
    /\ errors' = [errors EXCEPT ![field] =
                    [error |-> IF error # Null THEN "true" ELSE "false",
                     message |-> IF error # Null THEN error ELSE Undefined,
                     version |-> VERSION + 1]]
    /\ written' = [written EXCEPT ![field] = [version |-> VERSION + 1, result |-> "direct"]]
    /\ UNCHANGED <<values, globalErrors, validatingState, submitting, unmountRef,
                   processors, passes, submits, settled, call>>

\* setGlobalError(error)
setGlobalError(error) ==
    /\ VERSION < MaxVersion
    /\ event' = Event("setGlobalError", NoField, VERSION + 1, NoOutcome)
    /\ VERSION' = VERSION + 1
    /\ globalErrors' = [error |-> IF error # Null THEN "true" ELSE "false",
                        message |-> IF error # Null THEN error ELSE Undefined,
                        version |-> VERSION + 1]
    /\ UNCHANGED <<values, errors, validatingState, submitting, unmountRef,
                   processors, passes, submits, settled, written, call>>

\* the cleanup of the effect: unmountRef.current = true
unmount ==
    /\ ~unmountRef
    /\ unmountRef' = TRUE
    /\ event' = Event("unmount", NoField, 0, NoOutcome)
    /\ UNCHANGED <<VERSION, values, errors, globalErrors, validatingState, submitting,
                   processors, passes, submits, settled, written, call>>

fieldIndex(f) == CHOOSE i \in 1..Len(FieldOrder) : FieldOrder[i] = f

\* The state after the first render: the initialiser of errors takes one
\* version per field, in key order, then the one of globalErrors takes one
InitForm ==
    /\ VERSION = Len(FieldOrder) + 1
    /\ errors = [f \in Fields |->
                    [error |-> Undefined, message |-> Undefined, version |-> fieldIndex(f)]]
    /\ globalErrors = [error |-> Undefined, message |-> Undefined,
                       version |-> Len(FieldOrder) + 1]
    /\ validatingState = <<>>
    /\ submitting = FALSE
    /\ unmountRef = FALSE
    /\ passes = {}
    /\ submits = {}
    /\ settled = NotSettled
    /\ written = [f \in Fields |-> [version |-> fieldIndex(f), result |-> "init"]]
    /\ event = Event("init", NoField, 0, NoOutcome)

\* no function of the module is called on its own
NoCall == [op |-> "none"]

Init ==
    /\ InitForm
    /\ values \in [Fields -> Values]
    /\ processors = "none"
    /\ call = NoCall

Next ==
    \/ \E key \in Fields, target \in Values : handleChanges(key, target, FALSE)
    \/ \E key \in Fields : handleBlurs(key, FALSE)
    \/ handleSubmit(FALSE)
    \/ \E pass \in passes : \E out \in passOutcomes(pass) : execValidateSettles(pass, out)
    \/ \E s \in submits : \E error \in SubmitErrors \cup {Null} : onSubmitSettles(s, error)
    \/ \E field \in Fields, error \in Messages \cup {Null} : setFieldError(field, error)
    \/ \E error \in Messages \cup {Null} : setGlobalError(error)
    \/ unmount

Spec == Init /\ [][Next]_vars

---------------------------------------------------------------------------
(* Forms whose validate function is built by createValidator *)

InitCV ==
    /\ InitForm
    /\ values \in [Fields -> ValuesCV]
    /\ processors \in Forms
    /\ call = NoCall

\* the validators of SpecCV return without suspending: a pass settles before
\* the next event is handled
NextCV ==
    \/ /\ passes = {}
       /\ \/ \E key \in Fields, target \in ValuesCV : handleChanges(key, target, TRUE)
          \/ \E key \in Fields : handleBlurs(key, TRUE)
          \/ handleSubmit(TRUE)
    \/ \E pass \in passes : \E out \in passOutcomes(pass) : execValidateSettles(pass, out)
    \/ \E s \in submits : \E error \in SubmitErrors \cup {Null} : onSubmitSettles(s, error)
    \/ unmount

SpecCV == InitCV /\ [][NextCV]_vars

\* the validate call of every pass settles, and so does every call of onSubmit
Fairness ==
    /\ WF_vars(\E pass \in passes : \E out \in passOutcomes(pass) :
                    execValidateSettles(pass, out))
    /\ WF_vars(\E s \in submits : \E error \in SubmitErrors \cup {Null} :
                    onSubmitSettles(s, error))

FairSpec == Spec /\ Fairness

---------------------------------------------------------------------------
(* Another form instance of the same module *)

\* VERSION is a variable of the module, which every form instance shares:
\* another instance takes n versions from it, one for a pass or a direct
\* error set of its own, two for its initialisation with one field
otherInstance(n) ==
    /\ call.op = "instances"
    /\ VERSION + n <= MaxVersion
    /\ VERSION' = VERSION + n
    /\ call' = [call EXCEPT !.allocated = @ \cup (VERSION + 1)..(VERSION + n)]
    /\ UNCHANGED <<values, errors, globalErrors, validatingState, submitting, unmountRef,
                   processors, passes, submits, settled, written, event>>

InitInstances ==
    /\ InitForm
    /\ values \in [Fields -> Values]
    /\ processors = "none"
    /\ call = [op |-> "instances", allocated |-> {}]

NextInstances ==
    \/ Next
    \/ \E n \in 1..2 : otherInstance(n)

SpecInstances == InitInstances /\ [][NextInstances]_vars

----------------------------------------------------------------------------
(* mergeError called on its own *)

\* the versions of the stored states and of the merged result
MaxMergeVersion == 3
MergeVersions == 1..MaxMergeVersion
\* the messages of the stored errors and of the merged results
MergeMessages == {"m1", "Required"}

\* ErrorState: a message is stored with error = true only
ErrorStates ==
    {[error |-> Undefined, message |-> Undefined, version |-> v] : v \in MergeVersions}
    \cup {[error |-> "false", message |-> Undefined, version |-> v] : v \in MergeVersions}
    \cup {[error |-> "true", message |-> m, version |-> v] :
            m \in MergeMessages, v \in MergeVersions}
\* ErrorType
MergeResults == {Error_Keep, Error_Reset, Error_False} \cup MergeMessages

\* `change` at the return of mergeError: false iff `states` itself is returned
mergeErrorChange(states, errs, version) ==
    \E key \in DOMAIN states :
        /\ version >= states[key].version
        /\ errs[key] \in {Error_Reset, Error_False} \cup Strings

\* the variables of the form
formVars == <<VERSION, values, errors, globalErrors, validatingState, submitting,
              unmountRef, processors, passes, submits, settled, written, event>>

\* a form nobody touches
IdleForm ==
    /\ InitForm
    /\ values = [f \in Fields |-> ""]
    /\ processors = "none"

MergeCall(op, states, errs, version) ==
    [op |-> op, states |-> states, errs |-> errs, version |-> version,
     result |-> mergeError(states, errs, version),
     change |-> mergeErrorChange(states, errs, version)]

\* The arguments of a merge: a pass takes a fresh version when it starts, so
\* the version it merges with is the version of no stored state
InitMerge ==
    /\ IdleForm
    /\ \E states \in [Fields -> ErrorStates], errs \in [Fields -> MergeResults],
          version \in MergeVersions :
            /\ \A f \in Fields : states[f].version # version
            /\ call = [op |-> "arguments", states |-> states, errs |-> errs,
                       version |-> version, result |-> states, change |-> FALSE]

\* mergeError(states, errors, version)
mergeErrorCall ==
    /\ call.op = "arguments"
    /\ call' = MergeCall("mergeError", call.states, call.errs, call.version)
    /\ UNCHANGED formVars

\* the same result merged at the same version into the state the merge returned
mergeErrorAgain ==
    /\ call.op = "mergeError"
    /\ call' = MergeCall("mergeErrorAgain", call.result, call.errs, call.version)
    /\ UNCHANGED formVars

NextMerge == mergeErrorCall \/ mergeErrorAgain

SpecMerge == InitMerge /\ [][NextMerge]_vars

---------------------------------------------------------------------------
(* checkTriggers called on its own *)

\* the longest list of trigger options
MaxTriggerList == 2

\* TriggerSimpleOption
TriggerSimpleOptions == {"change", "blur", "blur!", "submit", "submit!"}
\* Trigger
Triggers == {"change", "blur", "submit"}
\* TriggerOption
TriggerOptions ==
    {Simple(t) : t \in TriggerSimpleOptions}
    \cup {Object(t, fs) : t \in TriggerSimpleOptions, fs \in SUBSET Fields}
\* TriggersOption: an option or an array of options
TriggersOptions ==
    TriggerOptions
    \cup {List(opts) : opts \in UNION {[1..n -> TriggerOptions] : n \in 0..MaxTriggerList}}

\* the arguments: extraTriggers is left out, or 'submit' as processFieldValidator passes it
InitTriggers ==
    /\ IdleForm
    /\ \E triggers \in TriggersOptions, trigger \in Triggers, ownerField \in Fields,
          triggerField \in Fields, extraTriggers \in {NoTriggers, Simple("submit")} :
            call = [op |-> "arguments", triggers |-> triggers, trigger |-> trigger,
                    ownerField |-> ownerField, triggerField |-> triggerField,
                    extraTriggers |-> extraTriggers, result |-> "none"]

\* checkTriggers(triggers, trigger, ownerField, triggerField, extraTriggers)
checkTriggersCall ==
    /\ call.op = "arguments"
    /\ call' = [call EXCEPT
                    !.op = "checkTriggers",
                    !.result = checkTriggers(call.triggers, call.trigger, call.ownerField,
                                             call.triggerField, call.extraTriggers)]
    /\ UNCHANGED formVars

NextTriggers == checkTriggersCall

SpecTriggers == InitTriggers /\ [][NextTriggers]_vars

---------------------------------------------------------------------------
(* parallel called on its own *)

\* the longest list of validators handed to parallel
MaxValidators == 2

\* the validators handed to parallel, as validators of field a
ParallelValidators == {required, string, sameWith("b"), sameWithWhenExists("b")}

\* validators.map(validator => async () => { await validator(...) }): element i
\* is an async function, which nothing calls, and not the promise of a call
parallelTasks(validators, value, vals) ==
    [i \in 1..Len(validators) |->
        [called |-> FALSE, outcome |-> callValidator(validators[i], value, vals)]]

\* Promise.all(tasks): an element that is not a promise counts as fulfilled;
\* it rejects with the first rejection of the promises of calls
PromiseAll(tasks) ==
    LET rejected == {i \in DOMAIN tasks : tasks[i].called /\ tasks[i].outcome.threw}
    IN  IF rejected = {}
        THEN Ok
        ELSE tasks[CHOOSE i \in rejected : \A j \in rejected : i <= j].outcome

\* parallel(...validators)(value, error, values, errors, trigger): the
\* validators it invoked and how it settles
parallel(validators, value, vals) ==
    LET tasks == parallelTasks(validators, value, vals)
    IN  [invoked |-> {i \in DOMAIN tasks : tasks[i].called},
         result |-> PromiseAll(tasks)]

InitParallel ==
    /\ IdleForm
    /\ \E validators \in UNION {[1..n -> ParallelValidators] : n \in 0..MaxValidators},
          vals \in [Fields -> ValuesCV] :
            call = [op |-> "arguments", validators |-> validators, value |-> vals["a"],
                    values |-> vals, invoked |-> {}, result |-> Ok]

parallelCall ==
    /\ call.op = "arguments"
    /\ LET r == parallel(call.validators, call.value, call.values)
       IN  call' = [call EXCEPT !.op = "parallel", !.invoked = r.invoked,
                                !.result = r.result]
    /\ UNCHANGED formVars

NextParallel == parallelCall

SpecParallel == InitParallel /\ [][NextParallel]_vars

---------------------------------------------------------------------------
(* sequence called on its own *)

\* the for loop of sequence reaches validator k: it calls it and awaits it,
\* or returns when the list is exhausted
sequenceInvoke(c, k) ==
    IF k > Len(c.validators)
    THEN [c EXCEPT !.op = "settled", !.k = 0, !.result = Ok]
    ELSE [c EXCEPT !.op = "awaiting", !.k = k, !.invoked = Append(@, k)]

sequenceResume_KeepGoing(c, outcome) ==
    sequenceInvoke(c, c.k + 1)

\* await validator(value, error, values, errors, trigger) settles: a rejection
\* leaves the loop and is the rejection of sequence, a fulfilment moves on
sequenceResume(c, outcome) ==
    IF outcome.threw
    THEN [c EXCEPT !.op = "settled", !.k = 0, !.result = outcome]
    ELSE sequenceInvoke(c, c.k + 1)

InitSequence ==
    /\ IdleForm
    /\ \E validators \in UNION {[1..n -> ParallelValidators] : n \in 0..MaxValidators},
          vals \in [Fields -> ValuesCV] :
            call = [op |-> "arguments", validators |-> validators, value |-> vals["a"],
                    values |-> vals, k |-> 0, invoked |-> <<>>, result |-> Ok]

\* sequence(...validators)(value, error, values, errors, trigger) is called
sequenceCall ==
    /\ call.op = "arguments"
    /\ call' = sequenceInvoke(call, 1)
    /\ UNCHANGED formVars

\* the validator the loop awaits settles
sequenceSettles ==
    /\ call.op = "awaiting"
    /\ call' = sequenceResume(call, callValidator(call.validators[call.k], call.value,
                                                  call.values))
    /\ UNCHANGED formVars

NextSequence == sequenceCall \/ sequenceSettles

SpecSequence == InitSequence /\ [][NextSequence]_vars

----------------------------------------------------------------------------
(* composedOf, matchSomeOf and notMatchSomeOf called on their own *)

\* the longest value and the longest list of patterns
MaxValueLen == 3
MaxPatterns == 2

\* the characters of the values: a lower case letter, an upper case letter,
\* a digit and a keyboard symbol
Chars == {"a", "A", "1", "!"}

\* a pattern is one or more characters of a class; the patterns of the
\* password validators of the README
RegExp(class, ignoreCase) == [class |-> class, ignoreCase |-> ignoreCase, global |-> FALSE]
LowerLetters == RegExp({"a"}, TRUE)
UpperLetters == RegExp({"A"}, FALSE)
Digits == RegExp({"1"}, FALSE)
REG_SPECIAL == RegExp({"!"}, FALSE)
Patterns == {LowerLetters, UpperLetters, Digits, REG_SPECIAL}

\* case folding of the i flag
fold(ch) == IF ch = "A" THEN "a" ELSE ch

\* the character is one of the pattern's class
classHas(part, ch) ==
    IF part.ignoreCase THEN \E c \in part.class : fold(c) = fold(ch) ELSE ch \in part.class

globalRegExp_Same(input) == input

\* a clone of the pattern with the g flag, keeping the i flag
globalRegExp(input) == [input EXCEPT !.global = TRUE]

\* part.test(value) of a pattern without the g flag: some match in the value
test(part, value) == \E i \in DOMAIN value : classHas(part, value[i])

\* strValue.replace(part, ''): every match is removed with the g flag, the
\* first (leftmost, longest) match without it
replace(strValue, part) ==
    IF part.global
    THEN SelectSeq(strValue, LAMBDA ch : ~classHas(part, ch))
    ELSE IF ~test(part, strValue)
         THEN strValue
         ELSE LET first == CHOOSE i \in DOMAIN strValue :
                               /\ classHas(part, strValue[i])
                               /\ \A j \in 1..(i - 1) : ~classHas(part, strValue[j])
                  last == CHOOSE i \in first..Len(strValue) :
                               /\ \A j \in first..i : classHas(part, strValue[j])
                               /\ i = Len(strValue) \/ ~classHas(part, strValue[i + 1])
              IN  SubSeq(strValue, 1, first - 1) \o SubSeq(strValue, last + 1, Len(strValue))

RECURSIVE composedOfLoop(_, _, _)
\* for (const part of copyParts) strValue = strValue.replace(part, '')
composedOfLoop(strValue, copyParts, i) ==
    IF i > Len(copyParts)
    THEN strValue
    ELSE composedOfLoop(replace(strValue, copyParts[i]), copyParts, i + 1)

\* composedOf(message, ...parts)(value)
composedOf(message, parts, value) ==
    LET copyParts == [i \in DOMAIN parts |-> globalRegExp(parts[i])]
    IN  IF value # <<>> /\ composedOfLoop(value, copyParts, 1) # <<>>
        THEN Throw(message)
        ELSE Ok

\* matchSomeOf(message, ...parts)(value): the loop sets test at the first
\* pattern that matches
matchSomeOf(message, parts, value) ==
    IF value # <<>> /\ ~(\E i \in DOMAIN parts : test(parts[i], value))
    THEN Throw(message)
    ELSE Ok

\* notMatchSomeOf(message, ...parts)(value): test starts true and the loop
\* clears it at the first pattern that does not match
notMatchSomeOf(message, parts, value) ==
    IF value # <<>> /\ ~(\E i \in DOMAIN parts : ~test(parts[i], value))
    THEN Throw(message)
    ELSE Ok

InitPatterns ==
    /\ IdleForm
    /\ \E parts \in UNION {[1..n -> Patterns] : n \in 0..MaxPatterns},
          value \in UNION {[1..n -> Chars] : n \in 0..MaxValueLen},
          message \in Messages :
            call = [op |-> "arguments", message |-> message, parts |-> parts,
                    value |-> value, result |-> Ok]

composedOfCall ==
    /\ call.op = "arguments"
    /\ call' = [call EXCEPT !.op = "composedOf",
                            !.result = composedOf(call.message, call.parts, call.value)]
    /\ UNCHANGED formVars

matchSomeOfCall ==
    /\ call.op = "arguments"
    /\ call' = [call EXCEPT !.op = "matchSomeOf",
                            !.result = matchSomeOf(call.message, call.parts, call.value)]
    /\ UNCHANGED formVars

notMatchSomeOfCall ==
    /\ call.op = "arguments"
    /\ call' = [call EXCEPT !.op = "notMatchSomeOf",
                            !.result = notMatchSomeOf(call.message, call.parts, call.value)]
    /\ UNCHANGED formVars

NextPatterns == composedOfCall \/ matchSomeOfCall \/ notMatchSomeOfCall

SpecPatterns == InitPatterns /\ [][NextPatterns]_vars

----------------------------------------------------------------------------
(* One call of a function built by createValidator, step by step *)

\* validators of the form's own: one that throws
\* new FieldValidateError(field, 'm2') and one that throws new Error('m3')
rejectsField(field) == [name |-> "rejectsField", field |-> field]
rejectsError == [name |-> "rejectsError", field |-> NoField]

\* what awaiting the validator throws, if it throws
thrown(validator, value, vals) ==
    CASE validator.name = "rejectsField" ->
            [threw |-> TRUE, kind |-> "FieldValidateError", field |-> validator.field,
             message |-> "m2"]
      [] validator.name = "rejectsError" ->
            [threw |-> TRUE, kind |-> "Error", field |-> NoField, message |-> "m3"]
      [] OTHER ->
            LET r == callValidator(validator, value, vals)
            IN  [threw |-> r.threw, kind |-> "string", field |-> NoField,
                 message |-> r.message]

\* a validator that throws an error for the other field
ScopedForm ==
    [a |-> Function(rejectsField("b")),
     b |-> Function(string)]

\* a field without validators of its own, which a validator of the other
\* field lists
FanOutForm ==
    [a |-> ObjectValidator(Object("blur!", {"b"}), required)]

\* arrays whose validators throw a string, an Error and a FieldValidateError
ArrayForm ==
    [a |-> Array(<<Function(required), Function(rejectsError)>>),
     b |-> Array(<<Function(string), ObjectValidator(Simple("blur"), rejectsField("a"))>>)]

\* a validator that a submit of the other field forces
SubmitFanOutForm ==
    [a |-> Array(<<Function(required), ObjectValidator(Object("submit!", {"b"}), string)>>),
     b |-> Function(required)]

\* a validator that a blur of the other field forces and that throws an error
\* for that field, which has a validator of its own
PinnedForm ==
    [a |-> ObjectValidator(Object("blur!", {"b"}), rejectsField("b")),
     b |-> Function(required)]

PassForms == Forms \cup {"ScopedForm", "FanOutForm", "ArrayForm", "SubmitFanOutForm", "PinnedForm"}

\* the FieldValidators a name of PassForms stands for
passProcessorsOf(name) ==
    CASE name = "ScopedForm" -> ScopedForm
      [] name = "FanOutForm" -> FanOutForm
      [] name = "ArrayForm" -> ArrayForm
      [] name = "SubmitFanOutForm" -> SubmitFanOutForm
      [] name = "PinnedForm" -> PinnedForm
      [] OTHER -> processorsOf(name)

RECURSIVE validatorsList(_)
RECURSIVE validatorsListFrom(_, _)
\* the validators of the elements of an array from element i on
validatorsListFrom(processor, i) ==
    IF i > Len(processor.items)
    THEN <<>>
    ELSE validatorsList(processor.items[i]) \o validatorsListFrom(processor, i + 1)

\* the validators processFieldValidator comes by in a processor, in the order
\* it comes by them, each with its triggers
validatorsList(processor) ==
    CASE processor.shape = "function" ->
            <<[triggers |-> DEFAULT_TRIGGER_OPTIONS, validate |-> processor.validate]>>
      [] processor.shape = "object" ->
            <<[triggers |-> processor.triggers, validate |-> processor.validate]>>
      [] OTHER -> validatorsListFrom(processor, 1)

\* the field of the i-th turn of the loop over the fields, and its trigger
roundField(c, i) == processorFields(passProcessorsOf(c.form))[i]
roundTrigger(c, i) == extractTrigger(roundField(c, i), c.metaTrigger, c.metaField, c.submit)

validatorRuns_AnyMatch(match, error) == match # NotMatch

\* the validator is called: a full match, or a match and no stored result
validatorRuns(match, error) ==
    match # NotMatch /\ (match = FullMatch \/ error = Undefined)

\* what the log records: a trigger check and whether it called the validator,
\* or a validator settling and the field its error is written to
CheckEvent(p, k, i, match, ok) ==
    [e |-> "check", field |-> p, k |-> k, round |-> i, match |-> match, ok |-> ok,
     target |-> NoField]
SettleEvent(p, k, i, ok, target) ==
    [e |-> "settle", field |-> p, k |-> k, round |-> i, match |-> "none", ok |-> ok,
     target |-> target]

RECURSIVE taskScan(_, _, _, _)
\* the task of processor field p goes on from its k-th validator in turn i:
\* it checks the triggers of each until it calls one, which it awaits (k), or
\* comes to its end (0)
taskScan(c, p, k, i) ==
    LET list == validatorsList(passProcessorsOf(c.form)[p])
    IN  IF k > Len(list)
        THEN [k |-> 0, log |-> <<>>]
        ELSE LET match == checkTriggers(list[k].triggers, roundTrigger(c, i), p,
                                        roundField(c, i), Simple("submit"))
                 run == validatorRuns(match, c.errors[p].error)
                 r == taskScan(c, p, k + 1, i)
             IN  IF run
                 THEN [k |-> k, log |-> <<CheckEvent(p, k, i, match, TRUE)>>]
                 ELSE [k |-> r.k, log |-> <<CheckEvent(p, k, i, match, FALSE)>> \o r.log]

RECURSIVE startTasks(_, _, _)
\* fields.map(async processorField => ...): each task runs up to its first
\* await before the next one is started
startTasks(c, i, j) ==
    IF j > Len(processorFields(passProcessorsOf(c.form)))
    THEN c
    ELSE LET p == processorFields(passProcessorsOf(c.form))[j]
             r == taskScan(c, p, 1, i)
         IN  startTasks([c EXCEPT !.tasks[p] = r.k, !.log = @ \o r.log], i, j + 1)

RECURSIVE enterRound(_, _)
\* for (const field of fields), from the i-th field on: the tasks of a touched
\* field are started and awaited together before the next field is looked at
enterRound(c, i) ==
    IF i > Len(processorFields(passProcessorsOf(c.form)))
    THEN [c EXCEPT !.op = "returned", !.round = 0]
    ELSE IF roundTrigger(c, i) = "null"
    THEN enterRound(c, i + 1)
    ELSE LET s == startTasks([c EXCEPT !.round = i], i, 1)
         IN  IF \A p \in Fields : s.tasks[p] = 0 THEN enterRound(s, i + 1) ELSE s

\* the catch of a task: the message is written to the field of a
\* FieldValidateError, and to the task's field otherwise
taskCatch(errorsOut, e, processorField) ==
    IF e.kind = "FieldValidateError"
    THEN [errorsOut |-> [errorsOut EXCEPT ![e.field] = e.message], rejected |-> FALSE]
    ELSE [errorsOut |-> [errorsOut EXCEPT ![processorField] = e.message],
          rejected |-> FALSE]

validatorDone_AlwaysFalse(errorsOut, processorField, trigger) ==
    [errorsOut EXCEPT ![processorField] = Error_False]

\* the lines after await validate(...)
validatorDone(errorsOut, processorField, trigger) ==
    IF errorsOut[processorField] # Error_Reset
    THEN [errorsOut EXCEPT ![processorField] =
            IF trigger = "change" THEN Error_Reset ELSE Error_False]
    ELSE errorsOut

\* the validator that the task of p awaits settles
taskResume(c, p) ==
    LET list == validatorsList(passProcessorsOf(c.form)[p])
        k == c.tasks[p]
        e == thrown(list[k].validate, c.values[p], c.values)
        caught == taskCatch(c.errorsOut, e, p)
        r == taskScan(c, p, k + 1, c.round)
    IN  IF e.threw
        THEN [c EXCEPT !.errorsOut = caught.errorsOut,
                       !.tasks[p] = 0,
                       !.op = IF caught.rejected THEN "rejected" ELSE @,
                       !.log = Append(@, SettleEvent(p, k, c.round, FALSE,
                                    IF e.kind = "FieldValidateError" THEN e.field ELSE p))]
        ELSE [c EXCEPT !.errorsOut = validatorDone(c.errorsOut, p, roundTrigger(c, c.round)),
                       !.tasks[p] = r.k,
                       !.log = Append(@, SettleEvent(p, k, c.round, TRUE, NoField)) \o r.log]

\* await Promise.all(tasks) goes on when the last task has ended
roundEnd(c) ==
    IF c.op = "running" /\ \A p \in Fields : c.tasks[p] = 0
    THEN enterRound(c, c.round + 1)
    ELSE c

\* the stored error states handed to the function
PassErrors ==
    {[f \in Fields |-> [error |-> e[f],
                        message |-> IF e[f] = "true" THEN "m1" ELSE Undefined,
                        version |-> fieldIndex(f)]] :
        e \in [Fields -> {Undefined, "true", "false"}]}

\* the meta and submit arguments of the passes of useForm: one field changed,
\* one field blurred, or a submit
PassMetas ==
    {[trigger |-> t, field |-> f, submit |-> FALSE] : t \in {"change", "blur"}, f \in Fields}
        \cup {[trigger |-> "none", field |-> NoField, submit |-> TRUE]}

InitPass ==
    /\ IdleForm
    /\ \E form \in PassForms, vals \in [Fields -> Values], errs \in PassErrors,
          meta \in PassMetas :
            call = [op |-> "arguments", form |-> form, values |-> vals, errors |-> errs,
                    metaTrigger |-> meta.trigger, metaField |-> meta.field,
                    submit |-> meta.submit, round |-> 0,
                    tasks |-> [f \in Fields |-> 0],
                    errorsOut |-> createKeepErrors(errs), log |-> <<>>]

\* createValidator(processors)(values, errors, meta, submit) is called
validateCall ==
    /\ call.op = "arguments"
    /\ call' = enterRound([call EXCEPT !.op = "running"], 1)
    /\ UNCHANGED formVars

\* a validator that a task awaits settles
validatorSettles ==
    /\ call.op = "running"
    /\ \E p \in Fields :
        /\ call.tasks[p] > 0
        /\ call' = roundEnd(taskResume(call, p))
    /\ UNCHANGED formVars

NextPass == validateCall \/ validatorSettles

SpecPass == InitPass /\ [][NextPass]_vars

----------------------------------------------------------------------------
(* The claims *)

\* the error state (hasError, message) an ErrorType other than Keep stands for
stateOf(result) ==
    CASE result = Error_Reset -> [error |-> Undefined, message |-> Undefined]
      [] result = Error_False -> [error |-> "false", message |-> Undefined]
      [] OTHER -> [error |-> "true", message |-> result]

byPass(f) == written[f].result \notin {"init", "direct"}

\* onSubmit is called in this step, by the handleSubmit call s
CallsOnSubmit(s) == s.pc = "onSubmit" /\ s \in submits' /\ s \notin submits

\* C1: once all passes of a live form have completed, the error state of each
\* field is the result of the highest-version pass whose result for the field was
\* not Keep (a field whose newest write is a direct setFieldError is left out)
C1_FinalStateIsNewestPass ==
    (passes = {} /\ ~unmountRef) =>
        \A f \in Fields :
            byPass(f) =>
                /\ errors[f].error = stateOf(written[f].result).error
                /\ errors[f].message = stateOf(written[f].result).message

\* a pass has just completed last although a pass started after it had already
\* written the field, with another result
C1_Witness ==
    /\ passes = {} /\ ~unmountRef
    /\ event.op = "settle" /\ event.out.kind = "patch"
    /\ \E f \in Fields :
        /\ byPass(f)
        /\ written[f].version > event.version
        /\ event.out.patch[f] \notin {Error_Keep, written[f].result}

\* C2: a pass that completes leaves every field whose stored version is greater
\* than the version of the pass exactly as it is
C2_StaleNeverOverwrites ==
    [][\A pass \in passes :
        pass \notin passes' =>
            \A f \in Fields : errors[f].version > pass.version => errors'[f] = errors[f]]_vars

\* a pass with a message for a field has completed after a later pass wrote it
C2_Witness ==
    /\ event.op = "settle"
    /\ \E f \in Fields :
        /\ byPass(f)
        /\ errors[f].version = written[f].version
        /\ errors[f].version > event.version
        /\ \/ event.out.kind = "patch" /\ event.out.patch[f] \in Messages
           \/ event.out.kind = "fieldError" /\ event.out.field = f

\* C3: onSubmit is called only if, once the submit pass has completed, no field
\* of the error store has hasError = true and there is no global error
C3_SubmitOnlyWithoutStoredError ==
    [][\A s \in submits' :
        CallsOnSubmit(s) =>
            /\ \A f \in Fields : errors'[f].error # "true"
            /\ globalErrors'.error # "true"]_vars

RECURSIVE validatorsOf(_)
\* the validators a processor declares
validatorsOf(processor) ==
    IF processor.shape = "array"
    THEN UNION {validatorsOf(processor.items[i]) : i \in 1..Len(processor.items)}
    ELSE {processor.validate}

\* every validator declared for every field accepts vals
AllAccept(procs, vals) ==
    \A f \in DOMAIN procs :
        \A validator \in validatorsOf(procs[f]) :
            ~callValidator(validator, vals[f], vals).threw

\* C4: with a validate function built by createValidator, onSubmit is called
\* only if every validator of every field accepts the values submitted
C4_SubmitOnlyIfAllValidatorsAccept ==
    [][\A s \in submits' : CallsOnSubmit(s) => AllAccept(processorsOf(processors), s.values)]_vars

\* C5: a call of handleSubmit while validating or submitting starts no pass,
\* allocates no version, does not set submitting, does not call onSubmit and
\* leaves the values and the error state unchanged
C5_BusySubmitIgnored ==
    [][(event'.op = "handleSubmit" /\ (validating \/ submitting)) =>
        UNCHANGED <<VERSION, values, errors, globalErrors, validatingState, submitting,
                    passes, submits>>]_vars

\* handleSubmit was called while a change or blur pass was in flight
C5_Witness ==
    /\ event.op = "handleSubmit"
    /\ validating /\ ~submitting
    /\ \E pass \in passes : pass.trigger \in {"change", "blur"}

\* C6: while submitting, a change or a blur replaces no value and starts no pass
C6_ChangeBlurIgnoredWhileSubmitting ==
    [][(event'.op \in {"handleChange", "handleBlur"} /\ submitting) =>
        UNCHANGED <<VERSION, values, validatingState, passes>>]_vars

\* a field was changed while the submission was running
C6_Witness ==
    /\ event.op = "handleChange"
    /\ submitting

\* C7: at most one submission is in progress, and while submitting the only
\* pass in flight is the one of the submission
C7_SubmissionExclusive ==
    /\ Cardinality(submits) <= 1
    /\ submitting =>
        /\ \A pass \in passes : \E s \in submits : s.version = pass.version
        /\ \A i \in 1..Len(validatingState) :
                \E s \in submits : s.version = validatingState[i]

\* a blur arrived while the pass of the submission was in flight
C7_Witness ==
    /\ event.op = "handleBlur"
    /\ submitting
    /\ passes # {}

\* C8: when validate and onSubmit settle, a form that is submitting eventually
\* is not
C8_SubmittingEnds == submitting ~> ~submitting

\* a submission whose onSubmit threw is over
C8_Witness ==
    /\ event.op = "onSubmitThrow"
    /\ ~submitting
    /\ submits = {}

\* C9: when onSubmit fails, handleSubmit fails with that error, submitting is
\* false again and neither the error store nor the global error state is written
C9_OnSubmitFailurePropagates ==
    [][event'.op = "onSubmitThrow" =>
        /\ settled' = [result |-> "rejected", error |-> event'.out.message]
        /\ submitting' = FALSE
        /\ errors' = errors
        /\ globalErrors' = globalErrors]_vars

\* handleSubmit has failed with the error of onSubmit
C9_Witness ==
    /\ event.op = "onSubmitThrow"
    /\ settled.result = "rejected"
    /\ settled.error = "e2"

\* C10: the completion of a pass on a disposed form writes neither the error
\* store nor the global error state
C10_NoWriteAfterDispose ==
    [][(unmountRef /\ \E pass \in passes : pass \notin passes') =>
        (errors' = errors /\ globalErrors' = globalErrors)]_vars

\* a pass completed with a message on a disposed form
C10_Witness ==
    /\ unmountRef
    /\ event.op = "settle"
    /\ event.out.kind \in {"fieldError", "error"}


\* C11: a call of setFieldError or setGlobalError made after the form was
\* disposed changes neither the error store nor the global error state
C11_NoDirectSetAfterDispose ==
    [][(unmountRef /\ event'.op \in {"setFieldError", "setGlobalError"}) =>
            (errors' = errors /\ globalErrors' = globalErrors)]_vars


\* mergeError has returned
Merged == call.op \in {"mergeError", "mergeErrorAgain"}

\* C12: for every field whose stored version is <= the incoming version,
\* mergeError stores {undefined, no message, version} for Reset, {false, no
\* message, version} for False, {true, message, version} for a message, and
\* leaves the field, its version included, unchanged for Keep
C12_MergePerResult ==
    Merged =>
        \A f \in Fields :
            call.states[f].version <= call.version =>
                CASE call.errs[f] = Error_Reset ->
                        call.result[f] = [error |-> Undefined, message |-> Undefined,
                                          version |-> call.version]
                  [] call.errs[f] = Error_False ->
                        call.result[f] = [error |-> "false", message |-> Undefined,
                                          version |-> call.version]
                  [] call.errs[f] = Error_Keep ->
                        call.result[f] = call.states[f]
                  [] OTHER ->
                        call.result[f] = [error |-> "true", message |-> call.errs[f],
                                          version |-> call.version]

\* a message replaces another one on a field while the other field is reset
C12_Witness ==
    /\ call.op = "mergeError"
    /\ \E f, g \in Fields :
        /\ call.states[f].version < call.version
        /\ call.states[f].error = "true"
        /\ call.errs[f] \in MergeMessages \ {call.states[f].message}
        /\ call.states[g].version < call.version
        /\ call.states[g].error = "false"
        /\ call.errs[g] = Error_Reset

\* C13: merging the same result at the same version into the merged state
\* yields the merged state again
C13_MergeIdempotent ==
    [][call'.op = "mergeErrorAgain" => call'.result = call.result]_vars

\* the merge that is repeated wrote a field
C13_Witness ==
    /\ call.op = "mergeErrorAgain"
    /\ \E f \in Fields : call.errs[f] # Error_Keep /\ call.states[f].version = call.version

\* C14: mergeError returns the state object it was given whenever every field
\* of the result equals the stored one
C14_SameObjectWhenNothingChanges ==
    (Merged /\ call.result = call.states) => ~call.change


\* checkTriggers has returned
Checked == call.op = "checkTriggers"

\* C15: a simple trigger t matches the fired trigger x only if the triggering
\* field g is the owner field f; x = t gives FullMatch for change and
\* OptionMatch for blur and submit; t = x followed by '!' gives FullMatch
C15_SimpleTrigger ==
    (Checked /\ call.triggers.kind = "simple") =>
        LET t == call.triggers.trigger
            x == call.trigger
            f == call.ownerField
            g == call.triggerField
        IN  /\ g # f => call.result = NotMatch
            /\ (g = f /\ x = t) =>
                    call.result = IF x = "change" THEN FullMatch ELSE OptionMatch
            /\ (g = f /\ t = forced(x)) => call.result = FullMatch
            /\ (call.extraTriggers = NoTriggers /\ call.result # NotMatch) =>
                    (g = f /\ (x = t \/ t = forced(x)))

\* 'blur!' on a blur of the owner field
C15_Witness ==
    /\ Checked
    /\ call.triggers = Simple("blur!")
    /\ call.trigger = "blur"
    /\ call.ownerField = call.triggerField
    /\ call.result = FullMatch

\* C16: an object trigger {trigger: t, fields: F} of field f matches, with the
\* strength of the simple trigger t, exactly when the fired trigger corresponds
\* to t and the triggering field is f or a member of F
C16_ObjectTrigger ==
    (Checked /\ call.triggers.kind = "object") =>
        LET t == call.triggers.trigger
            x == call.trigger
            f == call.ownerField
            g == call.triggerField
            near == g = f \/ g \in call.triggers.fields
        IN  /\ (near /\ x = t) =>
                    call.result = IF x = "change" THEN FullMatch ELSE OptionMatch
            /\ (near /\ t = forced(x)) => call.result = FullMatch
            /\ call.extraTriggers = NoTriggers =>
                    (call.result # NotMatch <=> (near /\ (x = t \/ t = forced(x))))
            /\ call.extraTriggers = Simple("submit") =>
                    (call.result # NotMatch <=>
                        \/ near /\ (x = t \/ t = forced(x))
                        \/ x = "submit" /\ g = f)

\* {trigger: 'blur', fields: [g]} of field f on a blur of g
C16_Witness ==
    /\ Checked
    /\ call.triggers.kind = "object"
    /\ call.triggers.trigger = "blur"
    /\ call.trigger = "blur"
    /\ call.ownerField # call.triggerField
    /\ call.triggerField \in call.triggers.fields
    /\ call.result = OptionMatch

\* the matches of the elements of the list of the call
ElementMatches ==
    {checkTriggers(call.triggers.items[i], call.trigger, call.ownerField,
                   call.triggerField, call.extraTriggers) :
        i \in 1..Len(call.triggers.items)}

\* C17: a list of trigger specs gives the strongest match of its elements, in
\* whatever order they are listed
C17_ListStrongest ==
    (Checked /\ call.triggers.kind = "list") =>
        /\ call.result = IF FullMatch \in ElementMatches THEN FullMatch
                         ELSE IF OptionMatch \in ElementMatches THEN OptionMatch
                         ELSE NotMatch
        /\ \A i, j \in 1..Len(call.triggers.items) :
                checkTriggers(
                    List([call.triggers.items EXCEPT ![i] = call.triggers.items[j],
                                                     ![j] = call.triggers.items[i]]),
                    call.trigger, call.ownerField, call.triggerField,
                    call.extraTriggers) = call.result

\* an OptionMatch listed before a FullMatch
C17_Witness ==
    /\ Checked
    /\ call.triggers.kind = "list"
    /\ call.extraTriggers = NoTriggers
    /\ Len(call.triggers.items) = 2
    /\ checkTriggers(call.triggers.items[1], call.trigger, call.ownerField,
                     call.triggerField, NoTriggers) = OptionMatch
    /\ checkTriggers(call.triggers.items[2], call.trigger, call.ownerField,
                     call.triggerField, NoTriggers) = FullMatch
    /\ call.result = FullMatch

\* C18: on a submit of its own field the trigger check made for a validator
\* never returns NotMatch, whatever trigger spec the validator declares
C18_SubmitNeverNotMatch ==
    (/\ Checked
     /\ call.trigger = "submit"
     /\ call.ownerField = call.triggerField
     /\ call.extraTriggers = Simple("submit")) => call.result # NotMatch


\* the handleSubmit call whose validation pass completes in this step
SubmitPassCompletes(s) ==
    /\ s \in submits
    /\ s.pc = "validate"
    /\ event'.op = "settle"
    /\ event'.version = s.version

\* C19: with a required validator on every field, a submit of a live form
\* with an empty field ends with hasError = true on every empty field and
\* does not call onSubmit; a submit with every field filled calls onSubmit
\* exactly once, with the values of the form
C19_RequiredFormSubmit ==
    [][\A s \in submits :
        (processors = "RequiredForm" /\ ~unmountRef /\ SubmitPassCompletes(s)) =>
            IF \E f \in Fields : s.values[f] = ""
            THEN /\ \A f \in Fields : s.values[f] = "" => errors'[f].error = "true"
                 /\ submits' = {}
                 /\ ~submitting'
            ELSE /\ submits' = {[s EXCEPT !.pc = "onSubmit"]}
                 /\ s.values = values']_vars

\* the submit of the form with both fields empty has been turned down
C19_Witness ==
    /\ processors = "RequiredForm"
    /\ event.op = "settle"
    /\ settled.result = "resolved"
    /\ submits = {}
    /\ ~submitting
    /\ \A f \in Fields :
        /\ values[f] = ""
        /\ errors[f] = [error |-> "true", message |-> "Required", version |-> event.version]


\* the validators of the call that reject its value
Rejecting ==
    {i \in 1..Len(call.validators) :
        callValidator(call.validators[i], call.value, call.values).threw}

\* C20: the validator parallel(v1..vn) invokes every vi, fails with the first
\* error if some vi fails and succeeds only if all vi succeed
C20_ParallelRunsAll ==
    call.op = "parallel" =>
        /\ call.invoked = 1..Len(call.validators)
        /\ call.result.threw <=> Rejecting # {}
        /\ call.result.threw =>
                \E i \in Rejecting :
                    call.result = callValidator(call.validators[i], call.value, call.values)

\* C21: sequence(v1..vn) calls its validators in the order given, each one
\* after the one before it has settled, stops at the first that fails and
\* fails with that validator's error; it succeeds when none fails
firstFailing(c) ==
    LET failing == {i \in DOMAIN c.validators :
                        callValidator(c.validators[i], c.value, c.values).threw}
    IN  IF failing = {} THEN 0 ELSE CHOOSE i \in failing : \A j \in failing : i <= j

C21_SequenceStopsAtFirstFailure ==
    /\ call.op = "awaiting" =>
        /\ call.invoked = [i \in 1..call.k |-> i]
        /\ firstFailing(call) \in {0} \cup (call.k)..Len(call.validators)
    /\ call.op = "settled" =>
        IF firstFailing(call) = 0
        THEN /\ call.invoked = [i \in 1..Len(call.validators) |-> i]
             /\ call.result = Ok
        ELSE /\ call.invoked = [i \in 1..firstFailing(call) |-> i]
             /\ call.result = callValidator(call.validators[firstFailing(call)],
                                            call.value, call.values)

C21_Witness ==
    /\ call.op = "settled"
    /\ Len(call.validators) = 2
    /\ call.invoked = <<1>>
    /\ call.result.threw

\* C22: for a non-empty value and any list of patterns, matchSomeOf accepts
\* the value iff at least one pattern matches it, and notMatchSomeOf accepts
\* it iff no pattern matches it
SomeMatches(c) == \E i \in DOMAIN c.parts : test(c.parts[i], c.value)

C22_MatchSomeOfAndItsNegation ==
    call.value # <<>> =>
        /\ call.op = "matchSomeOf" => (~call.result.threw <=> SomeMatches(call))
        /\ call.op = "notMatchSomeOf" => (~call.result.threw <=> ~SomeMatches(call))

\* C23: composedOf accepts a non-empty value iff stripping the matches of the
\* patterns consumes it, which for character classes is: every character is
\* in one of the classes; it accepts aA1 and rejects a1! for letters and
\* digits; it accepts the empty value
AllInClasses(c) ==
    \A i \in DOMAIN c.value : \E p \in DOMAIN c.parts : classHas(c.parts[p], c.value[i])

Events(c) == {c.log[i] : i \in DOMAIN c.log}
\* the validator k of field p is called in turn i: its trigger check says so
CalledAt(c, n) == c.log[n].e = "check" /\ c.log[n].ok
\* the call of n has settled at m
SettledAt(c, n, m) ==
    /\ c.log[m].e = "settle"
    /\ c.log[m].field = c.log[n].field
    /\ c.log[m].k = c.log[n].k
    /\ c.log[m].round = c.log[n].round
\* a validator of field p succeeds in this step, or an error is written to p
WrittenInStep(p) ==
    \E n \in (Len(call.log) + 1)..Len(call'.log) :
        /\ call'.log[n].e = "settle"
        /\ IF call'.log[n].ok THEN call'.log[n].field = p ELSE call'.log[n].target = p

\* C24: in a call of a function built by createValidator a validator is called
\* iff its trigger check is a FullMatch, or an OptionMatch while the stored
\* hasError of its field is undefined; a check that does not call its
\* validator leaves the field's result as it is: a result changes only in a
\* step in which a validator of the field succeeds or an error is written to it
C24_CalledIffFullOrUnevaluated ==
    /\ [](call.op \in {"running", "returned"} =>
            \A n \in DOMAIN call.log :
                /\ call.log[n].e = "check" =>
                    /\ call.log[n].ok <=>
                        \/ call.log[n].match = FullMatch
                        \/ /\ call.log[n].match = OptionMatch
                           /\ call.errors[call.log[n].field].error = Undefined
                    /\ call.log[n].ok =>
                        \/ /\ call.tasks[call.log[n].field] = call.log[n].k
                           /\ call.round = call.log[n].round
                        \/ \E m \in (n + 1)..Len(call.log) : SettledAt(call, n, m)
                /\ call.log[n].e = "settle" =>
                    \E m \in 1..(n - 1) : CalledAt(call, m) /\ SettledAt(call, m, n))
    /\ [][\A p \in Fields :
            call'.errorsOut[p] # call.errorsOut[p] => WrittenInStep(p)]_vars

C24_Witness ==
    /\ call.op = "returned"
    /\ \E ev \in Events(call) :
        /\ ev.e = "check" /\ ev.match = OptionMatch /\ ~ev.ok
        /\ call.errors[ev.field].error = "false"
        /\ call.errorsOut[ev.field] = Error_Keep
    /\ \E ev \in Events(call) : ev.e = "check" /\ ev.match = FullMatch /\ ev.ok
    /\ \E ev \in Events(call) : ev.e = "check" /\ ev.match = OptionMatch /\ ev.ok

\* a validator of field p was called and succeeded
Succeeded(c, p) == \E ev \in Events(c) : ev.e = "settle" /\ ev.field = p /\ ev.ok
\* no validator of field p was called
NoneCalled(c, p) == \A ev \in Events(c) : (ev.e = "check" /\ ev.field = p) => ~ev.ok
\* no error was written to field p: none of its validators failed with a
\* string or an Error and no FieldValidateError named it
NoErrorOn(c, p) == \A ev \in Events(c) : (ev.e = "settle" /\ ~ev.ok) => ev.target # p
\* the result of a success under the trigger of the call
SuccessResult(c) == IF c.metaTrigger = "change" THEN Error_Reset ELSE Error_False

\* C25 as claimed: in the returned patch a field whose validator ran and
\* succeeded is Reset when the trigger was change and False otherwise, and
\* every field for which no validator was called is Keep
C25_PatchOfSuccessAndOfNoCall ==
    call.op = "returned" =>
        \A p \in Fields :
            /\ Succeeded(call, p) => call.errorsOut[p] = SuccessResult(call)
            /\ NoneCalled(call, p) => call.errorsOut[p] = Error_Keep

\* C25 amended: the same of every field that no error of the call was written
\* to
C25_PatchWhereNoErrorWasWritten ==
    call.op = "returned" =>
        \A p \in Fields :
            NoErrorOn(call, p) =>
                /\ Succeeded(call, p) => call.errorsOut[p] = SuccessResult(call)
                /\ NoneCalled(call, p) => call.errorsOut[p] = Error_Keep

C25_Witness ==
    /\ call.op = "returned"
    /\ call.metaTrigger = "change"
    /\ \E p, q \in Fields :
        /\ NoErrorOn(call, p) /\ Succeeded(call, p) /\ call.errorsOut[p] = Error_Reset
        /\ NoErrorOn(call, q) /\ NoneCalled(call, q) /\ call.errorsOut[q] = Error_Keep

\* the result is a message
IsMessage(result) == result \notin {Error_Keep, Error_Reset, Error_False}

\* C26: the function built by createValidator never fails; every error a
\* field validator throws becomes a message entry of the returned patch, on
\* the field a FieldValidateError names, or on the validator's own field for a
\* string or an Error
C26_ErrorsBecomeMessages ==
    /\ call.op # "rejected"
    /\ call.op = "returned" =>
        \A ev \in Events(call) :
            (ev.e = "settle" /\ ~ev.ok) => IsMessage(call.errorsOut[ev.target])

\* C27: the validator sets of different fields run concurrently: the first
\* validator called of a field is called before any validator of another
\* field has settled, in change, blur and submit calls alike
C27_FieldsRunConcurrently ==
    call.op \in {"running", "returned"} =>
        \A n \in DOMAIN call.log :
            (CalledAt(call, n)
                /\ \A m \in 1..(n - 1) :
                        CalledAt(call, m) => call.log[m].field # call.log[n].field)
            => \A m \in 1..(n - 1) :
                    call.log[m].e = "settle" => call.log[m].field = call.log[n].field

\* C28: the matching validators of one field's array are called in the order
\* of the array, each after the one before it has settled; when one fails, no
\* later validator of the field is called in the call and the field's result
\* is the failure's message
C28_ArrayInOrderUntilFailure ==
    /\ call.op \in {"running", "returned"} =>
        \A n \in DOMAIN call.log : \A m \in 1..(n - 1) :
            (CalledAt(call, n) /\ CalledAt(call, m)
                /\ call.log[m].field = call.log[n].field)
            => /\ call.log[m].k < call.log[n].k
               /\ \E s \in (m + 1)..(n - 1) : SettledAt(call, m, s) /\ call.log[s].ok
    /\ call.op = "returned" =>
        \A n \in DOMAIN call.log :
            (call.log[n].e = "settle" /\ ~call.log[n].ok /\ call.log[n].target = call.log[n].field)
            => call.errorsOut[call.log[n].field]
                    = thrown(validatorsList(passProcessorsOf(call.form)[call.log[n].field])
                                [call.log[n].k].validate,
                             call.values[call.log[n].field], call.values).message

\* the trigger option lists field g for the trigger
listsField(triggers, g, trigger) ==
    \/ /\ triggers.kind = "object"
       /\ g \in triggers.fields
       /\ triggers.trigger \in {trigger, forced(trigger)}
    \/ /\ triggers.kind = "list"
       /\ \E i \in DOMAIN triggers.items :
            /\ triggers.items[i].kind = "object"
            /\ g \in triggers.items[i].fields
            /\ triggers.items[i].trigger \in {trigger, forced(trigger)}

\* C29: when field g is changed or blurred, every validator of another field
\* whose object trigger lists g for that trigger is evaluated in the call,
\* whether or not g has validators of its own
C29_FanOutIsEvaluated ==
    (call.op = "returned" /\ call.metaTrigger \in {"change", "blur"}) =>
        \A f \in DOMAIN passProcessorsOf(call.form) \ {call.metaField} :
            \A k \in DOMAIN validatorsList(passProcessorsOf(call.form)[f]) :
                listsField(validatorsList(passProcessorsOf(call.form)[f])[k].triggers,
                           call.metaField, call.metaTrigger)
                => \E ev \in Events(call) : ev.e = "check" /\ ev.field = f /\ ev.k = k

\* C30: when the validate call of a pass fails on a live form, a field-scoped
\* error is merged, under the version guard, as a message on the named field
\* only; an unscoped error of a change or blur pass is merged as a message on
\* the touched field only; an unscoped error of a submit pass is stored, under
\* the same guard, as the global error and the error store is left as it is
C30_FailureRouting ==
    [][\A pass \in passes \ passes' :
        (/\ ~unmountRef
         /\ event'.op = "settle"
         /\ event'.version = pass.version
         /\ event'.out.kind \in {"fieldError", "error"})
        => LET message == event'.out.message
               merged(f) == IF pass.version >= errors[f].version
                            THEN [error |-> "true", message |-> message,
                                  version |-> pass.version]
                            ELSE errors[f]
           IN  CASE event'.out.kind = "fieldError" ->
                        /\ errors' = [errors EXCEPT ![event'.out.field] = merged(event'.out.field)]
                        /\ globalErrors' = globalErrors
                 [] event'.out.kind = "error" /\ pass.trigger \in {"change", "blur"} ->
                        /\ errors' = [errors EXCEPT ![pass.field] = merged(pass.field)]
                        /\ globalErrors' = globalErrors
                 [] OTHER ->
                        /\ errors' = errors
                        /\ globalErrors' = IF pass.version >= globalErrors.version
                                           THEN [error |-> "true", message |-> message,
                                                 version |-> pass.version]
                                           ELSE globalErrors]_vars

\* an unscoped failure of a submit pass has become the global error
C30_Witness ==
    /\ ~unmountRef
    /\ event.op = "settle"
    /\ event.out.kind = "error"
    /\ event.field = NoField
    /\ globalErrors = [error |-> "true", message |-> event.out.message,
                       version |-> event.version]
    /\ \E f \in Fields : errors[f].error = "true"

\* C31: the global error of a failed pass is stored only if the version of
\* the pass is >= the version of the stored global error state; a global
\* error that setGlobalError set after the pass started is not overwritten by
\* the pass
C31_GlobalErrorVersionGuard ==
    [][\A pass \in passes \ passes' :
        (event'.op = "settle" /\ event'.version = pass.version)
        => /\ globalErrors' # globalErrors =>
                /\ pass.version >= globalErrors.version
                /\ event'.out.kind = "error"
                /\ globalErrors'.version = pass.version
           /\ globalErrors.version > pass.version => globalErrors' = globalErrors]_vars

\* a submit pass failed after setGlobalError had set a newer global error
C31_Witness ==
    /\ ~unmountRef
    /\ event.op = "settle"
    /\ event.out.kind = "error"
    /\ event.field = NoField
    /\ globalErrors.version > event.version
    /\ globalErrors.error = "true"

\* the version is in the in-flight set
InFlight(v) == \E i \in DOMAIN validatingState : validatingState[i] = v

\* C32: the in-flight set holds exactly the versions of the passes that have
\* started and whose validate call has not settled, validating is true iff
\* the set is not empty, and every pass whose validate call settles is
\* removed: validating becomes false once the passes have settled
C32_InFlightSet ==
    /\ [](/\ \A v \in 1..MaxVersion : InFlight(v) <=> \E pass \in passes : pass.version = v
          /\ Len(validatingState) = Cardinality(passes)
          /\ validating <=> passes # {})
    /\ \A v \in 1..MaxVersion : InFlight(v) ~> ~InFlight(v)
    /\ validating ~> ~validating

\* the second of two passes in flight has failed and the first has settled
C32_Witness ==
    /\ event.op = "settle"
    /\ event.out.kind = "error"
    /\ event.version < VERSION
    /\ ~validating
    /\ passes = {}

\* C33: a pass is stamped at its start with a version that is taken once,
\* is greater than every version taken before it (by earlier passes, direct
\* error sets or the initialisation of any form instance) and is the version
\* of no other pass
C33_PassVersionFresh ==
    /\ [](/\ \A pass \in passes : pass.version <= VERSION
          /\ \A f \in Fields : errors[f].version <= VERSION
          /\ globalErrors.version <= VERSION
          /\ \A v \in call.allocated : v <= VERSION
          /\ \A p, q \in passes : p.version = q.version => p = q)
    /\ [][/\ VERSION' >= VERSION
          /\ Cardinality(passes' \ passes) <= 1
          /\ \A pass \in passes' \ passes :
                /\ pass.version = VERSION'
                /\ VERSION' = VERSION + 1
          /\ \A v \in call'.allocated \ call.allocated : v > VERSION]_vars

\* a pass started after another form instance took a version
C33_Witness ==
    /\ call.allocated # {}
    /\ \E p \in passes :
        /\ p.version = VERSION
        /\ \A v \in call.allocated : v < p.version
        /\ \A f \in Fields : errors[f].version < p.version

\* C34: the values are changed only by the change handler of a field, which
\* replaces the value of that field and leaves the value of every other field
\* as it is; blur, submit, the completion of a pass, setFieldError and
\* setGlobalError change no value
C34_ValuesChangedByChangeOnly ==
    [][/\ values' # values =>
            /\ event'.op = "handleChange"
            /\ \A f \in Fields \ {event'.field} : values'[f] = values[f]
       /\ event'.op \in {"handleBlur", "handleSubmit", "settle", "setFieldError",
                         "setGlobalError", "onSubmitReturn", "onSubmitThrow", "unmount"}
            => values' = values]_vars

\* a change has replaced the value of a and left the value of b
C34_Witness ==
    /\ event.op = "handleChange"
    /\ event.field = "a"
    /\ values = [a |-> "", b |-> "x"]
    /\ \E pass \in passes : pass.version = VERSION /\ pass.trigger = "change"
    /\ \E f \in Fields : written[f].result \notin {"init", "direct"}

\* C35: over any sequence of pass completions and direct error sets, the
\* version stored for each field of the error store and the version of the
\* global error state never decrease
C35_StoredVersionsNeverDecrease ==
    [][/\ \A f \in Fields : errors'[f].version >= errors[f].version
       /\ globalErrors'.version >= globalErrors.version]_vars

\* a pass older than a field's stored state completed with a result for it
C35_Witness ==
    /\ ~unmountRef
    /\ event.op = "settle"
    /\ event.out.kind = "patch"
    /\ \E f \in Fields :
        /\ event.out.patch[f] # Error_Keep
        /\ errors[f].version > event.version

RECURSIVE settleInFieldOrder(_)
\* the call carried to its end with the awaited validators settling in the
\* order of the fields
settleInFieldOrder(c) ==
    IF c.op # "running"
    THEN c
    ELSE LET p == CHOOSE q \in Fields :
                    /\ c.tasks[q] > 0
                    /\ \A r \in Fields : c.tasks[r] > 0 => fieldIndex(q) <= fieldIndex(r)
         IN  settleInFieldOrder(roundEnd(taskResume(c, p)))

\* the call as it was made
Arguments(c) ==
    [c EXCEPT !.op = "running", !.round = 0, !.tasks = [f \in Fields |-> 0],
              !.errorsOut = createKeepErrors(c.errors), !.log = <<>>]

\* event n is a FieldValidateError thrown for field g by a validator of
\* another field
PinsTo(c, n, g) ==
    /\ c.log[n].e = "settle" /\ ~c.log[n].ok
    /\ c.log[n].target = g /\ c.log[n].field # g

\* C36: the patch a createValidator call returns does not depend on the order
\* in which the validators it awaits together settle: it is the patch of the
\* same call with the validators settling in the order of the fields; and the
\* message a FieldValidateError of field f's validator pins to field g is g's
\* entry of the patch whether g's own validator settles, in that turn, before
\* or after the throw
C36_PatchIndependentOfOrder ==
    call.op = "returned" =>
        /\ call.errorsOut = settleInFieldOrder(enterRound(Arguments(call), 1)).errorsOut
        /\ \A g \in Fields : \A n \in DOMAIN call.log :
            (/\ PinsTo(call, n, g)
             /\ \E m \in DOMAIN call.log :
                    /\ call.log[m].e = "settle"
                    /\ call.log[m].field = g
                    /\ call.log[m].round = call.log[n].round
             /\ \A m \in DOMAIN call.log :
                    (call.log[m].e = "settle" /\ g \in {call.log[m].field, call.log[m].target})
                    => call.log[m].round <= call.log[n].round)
            => call.errorsOut[g]
                    = thrown(validatorsList(passProcessorsOf(call.form)[call.log[n].field])
                                [call.log[n].k].validate,
                             call.values[call.log[n].field], call.values).message

\* C37: setFieldError(f, e) stores the state of e on f with a version that is
\* new and greater than the version of every pass started before the call; a
\* pass that started before the call and completes after it leaves the state
\* that setFieldError stored as it is
C37_DirectSetOutlivesOlderPasses ==
    [][/\ (event'.op = "setFieldError" /\ VERSION' # VERSION) =>
            /\ errors'[event'.field].version = VERSION'
            /\ errors'[event'.field].version > VERSION
            /\ \A pass \in passes : errors'[event'.field].version > pass.version
            /\ errors'[event'.field].error \in {"true", "false"}
            /\ errors'[event'.field].error = "true"
                    <=> errors'[event'.field].message # Undefined
       /\ \A pass \in passes \ passes' : \A f \in Fields :
            (written[f].result = "direct" /\ pass.version < written[f].version)
            => errors'[f] = errors[f]]_vars

\* a pass older than the state setFieldError stored on a field completed on a
\* live form with a result for the field
C37_Witness ==
    /\ ~unmountRef
    /\ event.op = "settle"
    /\ event.out.kind = "patch"
    /\ \E f \in Fields :
        /\ event.out.patch[f] \notin {Error_Keep, Error_Reset}
        /\ written[f].result = "direct"
        /\ written[f].version > event.version
        /\ errors[f] = [error |-> "true", message |-> "m1", version |-> written[f].version]

\* the trigger option is a simple trigger or a list of simple triggers
IsSimpleOption(triggers) ==
    \/ triggers.kind = "simple"
    \/ /\ triggers.kind = "list"
       /\ \A i \in DOMAIN triggers.items : triggers.items[i].kind = "simple"

\* every validator of the processors declares only simple triggers and throws
\* only unscoped errors
SimpleAndUnscoped(procs) ==
    \A f \in DOMAIN procs : \A k \in DOMAIN validatorsList(procs[f]) :
        /\ IsSimpleOption(validatorsList(procs[f])[k].triggers)
        /\ validatorsList(procs[f])[k].validate.name # "rejectsField"

\* C38: the completion of a change or blur pass on field f, run with a
\* createValidator function whose validators declare only simple triggers and
\* throw only unscoped errors, leaves the error state (hasError, message,
\* version) of every field other than f as it is
C38_OtherFieldsUntouched ==
    [][\A pass \in passes \ passes' :
        (/\ pass.trigger \in {"change", "blur"}
         /\ SimpleAndUnscoped(processorsOf(processors)))
        => \A g \in Fields \ {pass.field} : errors'[g] = errors[g]]_vars

\* a change or blur pass of such a form completed on a live form and wrote a message to
\* its field while the other field holds an error of an earlier pass
C38_Witness ==
    /\ ~unmountRef
    /\ SimpleAndUnscoped(processorsOf(processors))
    /\ event.op = "settle"
    /\ \E f \in Fields :
        /\ event.field = f
        /\ errors[f].error = "true"
        /\ errors[f].version = event.version
        /\ \E g \in Fields \ {f} :
            errors[g].error = "true" /\ errors[g].version < event.version

\* C39: the values handed to onSubmit are the values the submit pass was
\* started with, and they are the form's values at the step that calls
\* onSubmit: from the start of the submit pass to that step no step changes
\* the values
C39_OnSubmitGetsValidatedValues ==
    /\ [](\A s \in submits : s.pc = "validate" => s.values = values)
    /\ [][/\ \A s \in submits' \ submits :
                s.pc = "validate" =>
                    /\ s.values = values
                    /\ \E pass \in passes' \ passes :
                            pass.version = s.version /\ pass.trigger = "submit"
          /\ \A s \in submits' :
                CallsOnSubmit(s) =>
                    /\ [s EXCEPT !.pc = "validate"] \in submits
                    /\ s.values = values'
          /\ (\E s \in submits : s.pc = "validate") => values' = values]_vars

\* onSubmit was called with values that a change before the submission set
C39_Witness ==
    /\ event.op = "settle"
    /\ \E s \in submits :
        /\ s.pc = "onSubmit"
        /\ s.version = event.version
        /\ s.values = values
        /\ values = [a |-> "x", b |-> ""]
        /\ s.version > Len(FieldOrder) + 2

\* C40: the form stays disposed once it is, and no step of a disposed form
\* calls onSubmit, the completion without error of a submit pass that started
\* before the disposal included
C40_NoOnSubmitAfterDispose ==
    [][/\ unmountRef => unmountRef'
       /\ unmountRef => \A s \in submits' : ~CallsOnSubmit(s)
       /\ \A pass \in passes \ passes' :
            (unmountRef /\ pass.trigger = "submit")
            => \A s \in submits' : s.version # pass.version]_vars

\* a submit pass completed without error on a disposed form whose store holds
\* no error, and handleSubmit returned without calling onSubmit
C40_Witness ==
    /\ unmountRef
    /\ event.op = "settle"
    /\ event.field = NoField
    /\ event.out.kind = "patch"
    /\ \A f \in Fields : event.out.patch[f] \in {Error_Keep, Error_Reset, Error_False}
    /\ \A f \in Fields : errors[f].error # "true"
    /\ globalErrors.error # "true"
    /\ submits = {}
    /\ ~submitting
    /\ settled.result = "resolved"

====
